---- MODULE Spec2Model ----
(***************************************************************************)
(* Model of the tic-tac-toe room server (src/server.js): the game_rooms    *)
(* and players tables, the per-socket fields socket.roomCode and           *)
(* socket.playerSymbol, the pending cleanup timers, and the socket.io      *)
(* handlers join-room, make-move, reset-game and disconnect.               *)
(*                                                                         *)
(*   Spec        every handler runs to completion before the next starts;  *)
(*               three sockets join, play on the cells 0..MaxCell, reset,  *)
(*               disconnect, and rooms are cleaned up.                     *)
(*   SpecGame    the same handlers for the two sockets of one match, on    *)
(*               all nine cells, without disconnects.                      *)
(*   SpecConc    join-room, make-move and reset-game interleaved at their  *)
(*               awaits, up to MaxInFlight handlers at once.               *)
(*   SpecBoards  checkWinner applied to every board of {'', X, O}^9.       *)
(*   SpecCreate  POST /api/create-room with its retry loop, one step per   *)
(*               query, candidates drawn from CreateCodes.                 *)
(*   SpecCleanup join-room and the cleanup callback of disconnect          *)
(*               interleaved at their awaits, for two sockets.             *)
(*   SpecEmit    join-room and make-move interleaved for two sockets, with *)
(*               the reads of the broadcast and of sendPlayerInfo as       *)
(*               separate steps.                                           *)
(*   SpecFail    the handlers of SpecGame run one after another, where a   *)
(*               query of a handler may throw.                             *)
(*   SpecRooms   two sockets and the two rooms of CreateCodes, handlers    *)
(*               run one after another, with disconnects and cleanup.      *)
(*                                                                         *)
(* Columns that are written but never read by the server (player1_id,      *)
(* player2_id, name, the timestamps) are left out of the rows. The board   *)
(* column is a string of nine characters with ' ' for an empty cell; the   *)
(* handlers work on boardToArray of it, with '' for an empty cell.         *)
(***************************************************************************)
EXTENDS Integers, Sequences, FiniteSets, TLC

\* Number of socket connections the server ever accepts in a run.
NumSockets == 3

Sockets == 1..NumSockets

\* Room codes in use (generateRoomCode draws from 36^6; one is enough for
\* the handlers of a single room).
RoomCodes == {"R1"}

\* SQL NULL / JavaScript undefined for a CHAR column or socket field.
NULL == "NULL"

\* Positions a client may send: the nine cells and one value off each end.
PosInputs == -1..9

\* The lifecycle specification plays on the cells 0..MaxCell only (and
\* sends the two out-of-range positions).
MaxCell == 4

LifePos == {-1, 9} \cup 0..MaxCell

\* The two connections of one match.
GameSockets == {1, 2}

\* Handlers that may be suspended at an await at the same time (SpecConc).
MaxInFlight == 2

\* SpecConc plays on the cells 0..MaxConcCell.
MaxConcCell == 1

ConcPos == 0..MaxConcCell

\* The codes generateRoomCode returns in SpecCreate: few enough that
\* candidates collide with existing rooms.
CreateCodes == {"R1", "R2"}

\* while (attempts < 10) / if (attempts >= 10) in POST /api/create-room
MaxAttempts == 10

\* ------------------------------------------------------------------------
\* Utility functions (src/server.js 74-101)

\* The board column's default, nine blanks.
EmptyBoardString == [i \in 1..9 |-> " "]

\* boardString.split('').map(char => char === ' ' ? '' : char)
boardToArray(boardString) ==
    [i \in 1..Len(boardString) |->
        IF boardString[i] = " " THEN "" ELSE boardString[i]]

\* boardArray.map(cell => cell || ' ').join('')
arrayToBoard(boardArray) ==
    [i \in 1..Len(boardArray) |->
        IF boardArray[i] = "" THEN " " ELSE boardArray[i]]

\* The eight triples, 0-based as in the source, in the source's order.
winPatterns ==
    << <<0, 1, 2>>, <<3, 4, 5>>, <<6, 7, 8>>,
       <<0, 3, 6>>, <<1, 4, 7>>, <<2, 5, 8>>,
       <<0, 4, 8>>, <<2, 4, 6>> >>

\* Mutant: the truthiness test on board[a] is dropped.
patternHitNoTruthy(board, p) ==
    /\ board[p[1] + 1] = board[p[2] + 1]
    /\ board[p[1] + 1] = board[p[3] + 1]

\* board[a] && board[a] === board[b] && board[a] === board[c]
patternHit(board, p) ==
    /\ board[p[1] + 1] # ""
    /\ board[p[1] + 1] = board[p[2] + 1]
    /\ board[p[1] + 1] = board[p[3] + 1]

\* checkWinner: the first matching pattern's symbol, else 'draw' on a full
\* board, else null.
checkWinner(board) ==
    LET hits == {k \in 1..Len(winPatterns) : patternHit(board, winPatterns[k])}
    IN  IF hits # {}
        THEN LET k == CHOOSE j \in hits : \A i \in hits : j <= i
             IN  board[winPatterns[k][1] + 1]
        ELSE IF \A i \in 1..Len(board) : board[i] # ""
        THEN "draw"
        ELSE NULL

\* ------------------------------------------------------------------------
\* State

VARIABLES
    rooms,       \* game_rooms table: room_code -> row
    players,     \* players table: socket_id -> row
    conn,        \* per socket: "idle" (not yet connected), "open", "closed"
    sockRoom,    \* socket.roomCode
    ioRooms,     \* per socket: the socket.io rooms it has joined
    sockSymbol,  \* socket.playerSymbol
    timers,      \* sockets whose disconnect scheduled a cleanup not yet fired
    reply,       \* what the last handler emitted to its own socket
    moves,       \* history: successful moves since the game last started
    probe,       \* a board handed to checkWinner and what it returned
    tasks        \* handlers suspended at an await, by slot (SpecConc)

vars == <<rooms, players, conn, sockRoom, sockSymbol, ioRooms, timers, reply, moves,
          probe, tasks>>

\* INSERT INTO game_rooms (room_code): the column defaults of initDB.
NewRoomRow ==
    [board |-> EmptyBoardString, current_player |-> "X",
     game_status |-> "waiting", winner |-> NULL]

\* SELECT * FROM players WHERE room_code = $1 AND connected = true
connectedPlayers(r) ==
    {s \in DOMAIN players : players[s].room_code = r /\ players[s].connected}

Reply(op, s, err) == [op |-> op, sock |-> s, err |-> err]

\* No board under evaluation (every specification but SpecBoards).
NoProbe == [board |-> <<>>, result |-> "idle"]

\* A free slot: no handler is suspended in it.
IdleTask ==
    [op |-> "idle", pc |-> "", sock |-> 0, room |-> NULL, pos |-> 0,
     first |-> FALSE, symbol |-> NULL, row |-> <<>>, attempts |-> 0,
     seen |-> <<>>, info |-> <<>>]

Slots == 1..MaxInFlight

Init ==
    /\ rooms = <<>>
    /\ players = <<>>
    /\ conn = [s \in Sockets |-> "idle"]
    /\ sockRoom = [s \in Sockets |-> NULL]
    /\ ioRooms = [s \in Sockets |-> {}]
    /\ sockSymbol = [s \in Sockets |-> NULL]
    /\ timers = {}
    /\ reply = Reply("none", 0, "")
    /\ moves = [r \in RoomCodes \cup CreateCodes |-> 0]
    /\ probe = NoProbe
    /\ tasks = [k \in Slots |-> IdleTask]

\* ------------------------------------------------------------------------
\* Handlers

\* POST /api/create-room with a code that is free.
CreateRoom(r) ==
    /\ r \notin DOMAIN rooms
    /\ rooms' = rooms @@ (r :> NewRoomRow)
    /\ moves' = [moves EXCEPT ![r] = 0]
    /\ reply' = Reply("create", 0, "")
    /\ UNCHANGED <<players, conn, sockRoom, sockSymbol, ioRooms, timers, probe, tasks>>

\* io.on('connection'): socket ids are fresh, so sockets are numbered in
\* the order they connect.
Connect(s) ==
    /\ conn[s] = "idle"
    /\ \A t \in Sockets : t < s => conn[t] # "idle"
    /\ conn' = [conn EXCEPT ![s] = "open"]
    /\ reply' = Reply("connect", s, "")
    /\ UNCHANGED <<rooms, players, sockRoom, sockSymbol, ioRooms, timers, moves, probe, tasks>>

\* Mutant: the capacity test is off by one.
roomIsFullOffByOne(n) == n > 2

\* playersResult.rows.length >= 2
roomIsFull(n) == n >= 2

\* isFirstPlayer ? 'X' : 'O'
joinSymbol(isFirstPlayer) == IF isFirstPlayer THEN "X" ELSE "O"

\* INSERT INTO players ... ON CONFLICT (socket_id) DO UPDATE ...
upsertPlayer(s, r, symbol) ==
    [t \in DOMAIN players \cup {s} |->
        IF t = s
        THEN [room_code |-> r, symbol |-> symbol, connected |-> TRUE]
        ELSE players[t]]

\* Mutant: the second player's UPDATE leaves game_status alone.
joinRoomUpdateNoStatus(r, isFirstPlayer) == rooms

\* The UPDATE of game_rooms in join-room: player1_id for the first player,
\* player2_id and game_status = 'playing' for the other. No row, no change.
joinRoomUpdate(r, isFirstPlayer) ==
    IF isFirstPlayer \/ r \notin DOMAIN rooms
    THEN rooms
    ELSE [rooms EXCEPT ![r].game_status = "playing"]

\* The move counter starts over when a Join takes the room out of waiting.
joinMoves(r, isFirstPlayer) ==
    IF ~isFirstPlayer /\ r \in DOMAIN rooms /\ rooms[r].game_status = "waiting"
    THEN [moves EXCEPT ![r] = 0]
    ELSE moves

\* socket.on('join-room')
JoinRoom(s, r) ==
    /\ conn[s] = "open"
    /\ IF r \notin DOMAIN rooms
       THEN /\ reply' = Reply("join", s, "Room not found")
            /\ UNCHANGED <<rooms, players, sockRoom, sockSymbol, ioRooms, moves>>
       ELSE LET n == Cardinality(connectedPlayers(r))
                isFirstPlayer == n = 0
                symbol == joinSymbol(isFirstPlayer)
            IN  IF roomIsFull(n)
                THEN /\ reply' = Reply("join", s, "Room is full")
                     /\ UNCHANGED <<rooms, players, sockRoom, sockSymbol, ioRooms, moves>>
                ELSE /\ players' = upsertPlayer(s, r, symbol)
                     /\ sockRoom' = [sockRoom EXCEPT ![s] = r]
                     /\ ioRooms' = [ioRooms EXCEPT ![s] = @ \cup {r}]
                     /\ sockSymbol' = [sockSymbol EXCEPT ![s] = symbol]
                     /\ rooms' = joinRoomUpdate(r, isFirstPlayer)
                     /\ moves' = joinMoves(r, isFirstPlayer)
                     /\ reply' = Reply("join", s, "")
    /\ UNCHANGED <<conn, timers, probe, tasks>>

\* Mutant: only a waiting room refuses moves.
notInProgressWaitingOnly(status) == status = "waiting"

\* room.game_status !== 'playing'
notInProgress(status) == status # "playing"

\* Mutant: the turn is not checked.
wrongTurnNever(currentPlayer, symbol) == FALSE

\* room.current_player !== socket.playerSymbol
wrongTurn(currentPlayer, symbol) == currentPlayer # symbol

\* Mutant: the turn does not pass to the other symbol.
nextPlayerOfSame(symbol) == symbol

\* socket.playerSymbol === 'X' ? 'O' : 'X'
nextPlayerOf(symbol) == IF symbol = "X" THEN "O" ELSE "X"

\* Mutant: a draw does not finish the game.
gameStatusOfWinOnly(winner) ==
    IF winner \in {"X", "O"} THEN "finished" ELSE "playing"

\* winner ? 'finished' : 'playing'
gameStatusOf(winner) == IF winner # NULL THEN "finished" ELSE "playing"

\* Mutant: checkWinner's result is stored as it is.
winnerColumnAsIs(winner) == winner

\* winner === 'draw' ? null : winner, the value bound to the winner column
winnerColumn(winner) == IF winner = "draw" THEN NULL ELSE winner

\* Mutant: only the range of the position is checked.
invalidMoveRangeOnly(boardArray, position) == position < 0 \/ position > 8

\* position < 0 || position > 8 || boardArray[position] !== ''
invalidMove(boardArray, position) ==
    position < 0 \/ position > 8 \/ boardArray[position + 1] # ""

\* The validation chain of make-move: the message of the first failing
\* check, "" when the move is accepted.
validateMove(room, symbol, position) ==
    IF notInProgress(room.game_status) THEN "Game not in progress"
    ELSE IF wrongTurn(room.current_player, symbol) THEN "Not your turn"
    ELSE IF invalidMove(boardToArray(room.board), position)
    THEN "Invalid move"
    ELSE ""

\* !socket.roomCode || socket.roomCode !== roomCode
notInRoom(s, r) == sockRoom[s] = NULL \/ sockRoom[s] # r

\* make-move up to its UPDATE, on the room row as it is now.
moveError(s, r, position) ==
    IF notInRoom(s, r) THEN "Not in this room"
    ELSE IF r \notin DOMAIN rooms THEN "Room not found"
    ELSE validateMove(rooms[r], sockSymbol[s], position)

\* The row make-move writes for an accepted move of symbol on the row it
\* read.
moveRow(room, symbol, position) ==
    LET boardArray == [boardToArray(room.board) EXCEPT ![position + 1] = symbol]
        newBoard == arrayToBoard(boardArray)
        winner == checkWinner(boardArray)
        nextPlayer == nextPlayerOf(symbol)
        gameStatus == gameStatusOf(winner)
    IN  [board |-> newBoard, current_player |-> nextPlayer,
         game_status |-> gameStatus, winner |-> winnerColumn(winner)]

\* socket.on('make-move')
MakeMove(s, r, position) ==
    /\ conn[s] = "open"
    /\ LET err == moveError(s, r, position)
       IN  /\ reply' = Reply("move", s, err)
           /\ IF err # ""
              THEN UNCHANGED <<rooms, moves>>
              ELSE /\ rooms' = [rooms EXCEPT
                                 ![r] = moveRow(rooms[r], sockSymbol[s], position)]
                   /\ moves' = [moves EXCEPT ![r] = @ + 1]
    /\ UNCHANGED <<players, conn, sockRoom, sockSymbol, ioRooms, timers, probe, tasks>>

\* Mutant: the reset puts the room back to waiting.
resetRowWaiting ==
    [board |-> EmptyBoardString, current_player |-> "X",
     game_status |-> "waiting", winner |-> NULL]

\* The row reset-game writes.
resetRow ==
    [board |-> EmptyBoardString, current_player |-> "X",
     game_status |-> "playing", winner |-> NULL]

\* Mutant: the UPDATE runs before the binding check.
ResetGameWritesFirst(s, r) ==
    /\ conn[s] = "open"
    /\ IF r \in DOMAIN rooms
       THEN /\ rooms' = [rooms EXCEPT ![r] = resetRow]
            /\ moves' = [moves EXCEPT ![r] = 0]
       ELSE UNCHANGED <<rooms, moves>>
    /\ reply' = Reply("reset", s,
                      IF notInRoom(s, r) THEN "Not in this room"
                      ELSE IF r \notin DOMAIN rooms THEN "Failed to reset game"
                      ELSE "")
    /\ UNCHANGED <<players, conn, sockRoom, sockSymbol, ioRooms, timers, probe, tasks>>

\* socket.on('reset-game'): the UPDATE touches no row when the room is
\* gone, and updatedRoom.rows[0].board then throws into the catch.
ResetGame(s, r) ==
    /\ conn[s] = "open"
    /\ IF notInRoom(s, r)
       THEN /\ reply' = Reply("reset", s, "Not in this room")
            /\ UNCHANGED <<rooms, moves>>
       ELSE IF r \notin DOMAIN rooms
       THEN /\ reply' = Reply("reset", s, "Failed to reset game")
            /\ UNCHANGED <<rooms, moves>>
       ELSE /\ rooms' = [rooms EXCEPT ![r] = resetRow]
            /\ moves' = [moves EXCEPT ![r] = 0]
            /\ reply' = Reply("reset", s, "")
    /\ UNCHANGED <<players, conn, sockRoom, sockSymbol, ioRooms, timers, probe, tasks>>

\* socket.on('disconnect')
Disconnect(s) ==
    /\ conn[s] = "open"
    /\ conn' = [conn EXCEPT ![s] = "closed"]
    /\ players' = [t \in DOMAIN players |->
                      IF t = s THEN [players[t] EXCEPT !.connected = FALSE]
                      ELSE players[t]]
    /\ timers' = IF sockRoom[s] # NULL THEN timers \cup {s} ELSE timers
    /\ reply' = Reply("disconnect", s, "")
    /\ ioRooms' = [ioRooms EXCEPT ![s] = {}]
    /\ UNCHANGED <<rooms, sockRoom, sockSymbol, moves, probe, tasks>>

\* GET /api/room/:code answers 404 'Room not found' when no row has the
\* code.
roomLookup(code) == IF code \in DOMAIN rooms THEN "" ELSE "Room not found"

\* Mutant: the cleanup never finds the room empty.
noneConnectedNever(n) == FALSE

\* Mutant: the cleanup finds the room empty whatever it reads.
noneConnectedAlways(n) == TRUE

\* if (activePlayers.rows.length === 0) in the cleanup callback
noneConnected(n) == n = 0

\* The setTimeout callback of disconnect, reading socket.roomCode as it
\* fires.
CleanupFire(s) ==
    /\ s \in timers
    /\ timers' = timers \ {s}
    /\ LET r == sockRoom[s]
       IN  IF noneConnected(Cardinality(connectedPlayers(r)))
           THEN /\ players' = [t \in {u \in DOMAIN players :
                                         players[u].room_code # r} |-> players[t]]
                /\ rooms' = [q \in DOMAIN rooms \ {r} |-> rooms[q]]
           ELSE UNCHANGED <<rooms, players>>
    /\ reply' = Reply("cleanup", s, "")
    /\ UNCHANGED <<conn, sockRoom, sockSymbol, ioRooms, moves, probe, tasks>>

\* One handler runs, for sockets in S and move positions in P.
Step(S, P) ==
    \/ \E r \in RoomCodes : CreateRoom(r)
    \/ \E s \in S : Connect(s)
    \/ \E s \in S, r \in RoomCodes : JoinRoom(s, r)
    \/ \E s \in S, r \in RoomCodes, position \in P : MakeMove(s, r, position)
    \/ \E s \in S, r \in RoomCodes : ResetGame(s, r)

\* Room lifecycle: every socket may join, play on the cells 0..MaxCell,
\* reset, disconnect, and have its cleanup timer fire.
Next ==
    \/ Step(Sockets, LifePos)
    \/ \E s \in Sockets : Disconnect(s)
    \/ \E s \in Sockets : CleanupFire(s)

Spec == Init /\ [][Next]_vars

\* Full games: the sockets of GameSockets join, play on all nine cells and
\* reset, and stay connected.
NextGame == Step(GameSockets, PosInputs)

SpecGame == Init /\ [][NextGame]_vars

\* ------------------------------------------------------------------------
\* Handlers interleaved at their awaits. Each step below is one pool.query
\* taking effect together with the handler code that runs when its await
\* resumes, up to the next await. The SELECTs that follow a handler's write
\* (for the broadcast and sendPlayerInfo) change no table and are one step.

\* The lowest free slot takes the new handler.
FreeSlot(k) ==
    /\ tasks[k].op = "idle"
    /\ \A j \in Slots : j < k => tasks[j].op # "idle"

\* The handler in slot k returns, having emitted err ("" for none) to its
\* socket.
Finish(k, err) ==
    /\ reply' = Reply(tasks[k].op, tasks[k].sock, err)
    /\ tasks' = [tasks EXCEPT ![k] = IdleTask]

Goto(k, pc) == tasks' = [tasks EXCEPT ![k].pc = pc]

\* join-room is received: its first query is on its way.
StartJoin(s, r) ==
    /\ conn[s] = "open"
    /\ \E k \in Slots :
          /\ FreeSlot(k)
          /\ tasks' = [tasks EXCEPT ![k] =
                          [IdleTask EXCEPT !.op = "join", !.pc = "selectRoom",
                                           !.sock = s, !.room = r]]
    /\ UNCHANGED <<rooms, players, conn, sockRoom, sockSymbol, ioRooms, timers, reply,
                   moves, probe>>

\* join-room, SELECT * FROM game_rooms (208-216)
JoinSelectRoom(k) ==
    /\ tasks[k].op = "join" /\ tasks[k].pc = "selectRoom"
    /\ IF tasks[k].room \notin DOMAIN rooms
       THEN Finish(k, "Room not found")
       ELSE Goto(k, "selectPlayers") /\ UNCHANGED reply
    /\ UNCHANGED <<rooms, players, conn, sockRoom, sockSymbol, ioRooms, timers, moves,
                   probe>>

\* join-room, SELECT connected players and the capacity check (221-233)
JoinSelectPlayers(k) ==
    /\ tasks[k].op = "join" /\ tasks[k].pc = "selectPlayers"
    /\ LET n == Cardinality(connectedPlayers(tasks[k].room))
       IN  IF roomIsFull(n)
           THEN Finish(k, "Room is full")
           ELSE /\ tasks' = [tasks EXCEPT ![k].pc = "insert",
                                          ![k].first = (n = 0)]
                /\ UNCHANGED reply
    /\ UNCHANGED <<rooms, players, conn, sockRoom, sockSymbol, ioRooms, timers, moves,
                   probe>>

\* join-room, the INSERT of the player and the socket's fields (236-244)
JoinInsert(k) ==
    /\ tasks[k].op = "join" /\ tasks[k].pc = "insert"
    /\ LET s == tasks[k].sock
           r == tasks[k].room
           symbol == joinSymbol(tasks[k].first)
       IN  /\ players' = upsertPlayer(s, r, symbol)
           /\ sockRoom' = [sockRoom EXCEPT ![s] = r]
           /\ ioRooms' = [ioRooms EXCEPT ![s] = @ \cup {r}]
           /\ sockSymbol' = [sockSymbol EXCEPT ![s] = symbol]
    /\ Goto(k, "update")
    /\ UNCHANGED <<rooms, conn, timers, reply, moves, probe>>

\* join-room, the UPDATE of the room (247-257)
JoinUpdate(k) ==
    /\ tasks[k].op = "join" /\ tasks[k].pc = "update"
    /\ rooms' = joinRoomUpdate(tasks[k].room, tasks[k].first)
    /\ moves' = joinMoves(tasks[k].room, tasks[k].first)
    /\ Goto(k, "emit")
    /\ UNCHANGED <<players, conn, sockRoom, sockSymbol, ioRooms, timers, reply, probe>>

\* The reads after a handler's write, the broadcast and sendPlayerInfo:
\* updatedRoom.rows[0] throws into the catch when the room is gone.
EmitState(k, failure) ==
    /\ tasks[k].op \in {"join", "move", "reset"} /\ tasks[k].pc = "emit"
    /\ IF tasks[k].room \notin DOMAIN rooms
       THEN Finish(k, failure)
       ELSE Finish(k, "")
    /\ UNCHANGED <<rooms, players, conn, sockRoom, sockSymbol, ioRooms, timers, moves,
                   probe>>

\* join-room, 260-288
JoinEmit(k) == tasks[k].op = "join" /\ EmitState(k, "Failed to join room")

\* make-move is received: the binding check (295-298), then its SELECT is
\* on its way.
StartMove(s, r, position) ==
    /\ conn[s] = "open"
    /\ IF notInRoom(s, r)
       THEN /\ reply' = Reply("move", s, "Not in this room")
            /\ UNCHANGED tasks
       ELSE /\ \E k \in Slots :
                  /\ FreeSlot(k)
                  /\ tasks' = [tasks EXCEPT ![k] =
                                  [IdleTask EXCEPT !.op = "move", !.pc = "select",
                                                   !.sock = s, !.room = r,
                                                   !.pos = position]]
            /\ UNCHANGED reply
    /\ UNCHANGED <<rooms, players, conn, sockRoom, sockSymbol, ioRooms, timers, moves,
                   probe>>

\* make-move, SELECT the room, validate, and compute the UPDATE's
\* parameters from the row read (301-338)
MoveSelect(k) ==
    /\ tasks[k].op = "move" /\ tasks[k].pc = "select"
    /\ LET s == tasks[k].sock
           r == tasks[k].room
       IN  IF r \notin DOMAIN rooms
           THEN Finish(k, "Room not found")
           ELSE LET err == validateMove(rooms[r], sockSymbol[s], tasks[k].pos)
                IN  IF err # ""
                    THEN Finish(k, err)
                    ELSE /\ tasks' =
                              [tasks EXCEPT
                                 ![k].pc = "update",
                                 ![k].symbol = sockSymbol[s],
                                 ![k].row = <<moveRow(rooms[r], sockSymbol[s],
                                                      tasks[k].pos)>>]
                         /\ UNCHANGED reply
    /\ UNCHANGED <<rooms, players, conn, sockRoom, sockSymbol, ioRooms, timers, moves,
                   probe>>

\* make-move, the UPDATE (341-344)
MoveUpdate(k) ==
    /\ tasks[k].op = "move" /\ tasks[k].pc = "update"
    /\ LET r == tasks[k].room
       IN  IF r \in DOMAIN rooms
           THEN /\ rooms' = [rooms EXCEPT ![r] = tasks[k].row[1]]
                /\ moves' = [moves EXCEPT ![r] = @ + 1]
           ELSE UNCHANGED <<rooms, moves>>
    /\ Goto(k, "emit")
    /\ UNCHANGED <<players, conn, sockRoom, sockSymbol, ioRooms, timers, reply, probe>>

\* make-move, 347-376
MoveEmit(k) == tasks[k].op = "move" /\ EmitState(k, "Failed to make move")

\* reset-game is received: the binding check (383-386), then its UPDATE is
\* on its way.
StartReset(s, r) ==
    /\ conn[s] = "open"
    /\ IF notInRoom(s, r)
       THEN /\ reply' = Reply("reset", s, "Not in this room")
            /\ UNCHANGED tasks
       ELSE /\ \E k \in Slots :
                  /\ FreeSlot(k)
                  /\ tasks' = [tasks EXCEPT ![k] =
                                  [IdleTask EXCEPT !.op = "reset", !.pc = "update",
                                                   !.sock = s, !.room = r]]
            /\ UNCHANGED reply
    /\ UNCHANGED <<rooms, players, conn, sockRoom, sockSymbol, ioRooms, timers, moves,
                   probe>>

\* reset-game, the UPDATE (389-392)
ResetUpdate(k) ==
    /\ tasks[k].op = "reset" /\ tasks[k].pc = "update"
    /\ LET r == tasks[k].room
       IN  IF r \in DOMAIN rooms
           THEN /\ rooms' = [rooms EXCEPT ![r] = resetRow]
                /\ moves' = [moves EXCEPT ![r] = 0]
           ELSE UNCHANGED <<rooms, moves>>
    /\ Goto(k, "emit")
    /\ UNCHANGED <<players, conn, sockRoom, sockSymbol, ioRooms, timers, reply, probe>>

\* reset-game, 395-422
ResetEmit(k) == tasks[k].op = "reset" /\ EmitState(k, "Failed to reset game")

\* Up to MaxInFlight handlers of join-room, make-move and reset-game are
\* under way at once, moves on the cells of ConcPos.
NextConc ==
    \/ \E r \in RoomCodes : CreateRoom(r)
    \/ \E s \in Sockets : Connect(s)
    \/ \E s \in Sockets, r \in RoomCodes : StartJoin(s, r)
    \/ \E s \in Sockets, r \in RoomCodes, position \in ConcPos :
          StartMove(s, r, position)
    \/ \E s \in Sockets, r \in RoomCodes : StartReset(s, r)
    \/ \E k \in Slots :
          \/ JoinSelectRoom(k)
          \/ JoinSelectPlayers(k)
          \/ JoinInsert(k)
          \/ JoinUpdate(k)
          \/ JoinEmit(k)
          \/ MoveSelect(k)
          \/ MoveUpdate(k)
          \/ MoveEmit(k)
          \/ ResetUpdate(k)
          \/ ResetEmit(k)

SpecConc == Init /\ [][NextConc]_vars

\* ------------------------------------------------------------------------
\* POST /api/create-room, one step per query (131-165)

\* The request arrives: attempts = 0, the loop is about to start.
StartCreate ==
    /\ \E k \in Slots :
          /\ FreeSlot(k)
          /\ tasks' = [tasks EXCEPT ![k] =
                          [IdleTask EXCEPT !.op = "create", !.pc = "select"]]
    /\ UNCHANGED <<rooms, players, conn, sockRoom, sockSymbol, ioRooms, timers, reply,
                   moves, probe>>

\* if (attempts >= 10) after the loop; found tells whether the last SELECT
\* returned a row.
exhausted(attempts, found) == attempts >= MaxAttempts

\* One iteration of the do/while: roomCode = generateRoomCode(), attempts++,
\* the SELECT of that code, the break or the loop test, and after the loop
\* the test of attempts (137-152).
CreateSelect(k, code) ==
    /\ tasks[k].op = "create" /\ tasks[k].pc = "select"
    /\ LET attempts == tasks[k].attempts + 1
           found == code \in DOMAIN rooms
       IN  IF found /\ attempts < MaxAttempts
           THEN /\ tasks' = [tasks EXCEPT ![k].room = code,
                                          ![k].attempts = attempts]
                /\ UNCHANGED reply
           ELSE IF exhausted(attempts, found)
           THEN Finish(k, "Unable to generate unique room code")
           ELSE /\ tasks' = [tasks EXCEPT ![k].room = code,
                                          ![k].attempts = attempts,
                                          ![k].pc = "insert"]
                /\ UNCHANGED reply
    /\ UNCHANGED <<rooms, players, conn, sockRoom, sockSymbol, ioRooms, timers, moves,
                   probe>>

\* INSERT INTO game_rooms (room_code): room_code is UNIQUE, so the INSERT
\* of a code another request has inserted since the SELECT throws (154-164).
CreateInsert(k) ==
    /\ tasks[k].op = "create" /\ tasks[k].pc = "insert"
    /\ LET r == tasks[k].room
       IN  IF r \in DOMAIN rooms
           THEN Finish(k, "Failed to create room") /\ UNCHANGED <<rooms, moves>>
           ELSE /\ rooms' = rooms @@ (r :> NewRoomRow)
                /\ moves' = [moves EXCEPT ![r] = 0]
                /\ Finish(k, "")
    /\ UNCHANGED <<players, conn, sockRoom, sockSymbol, ioRooms, timers, probe>>

NextCreate ==
    \/ StartCreate
    \/ \E k \in Slots :
          \/ \E code \in CreateCodes : CreateSelect(k, code)
          \/ CreateInsert(k)

SpecCreate == Init /\ [][NextCreate]_vars

\* ------------------------------------------------------------------------
\* The cleanup callback, one step per query (443-459), beside join-room

\* The timer of socket s expires: the callback's SELECT is on its way.
StartCleanup(s) ==
    /\ s \in timers
    /\ timers' = timers \ {s}
    /\ \E k \in Slots :
          /\ FreeSlot(k)
          /\ tasks' = [tasks EXCEPT ![k] =
                          [IdleTask EXCEPT !.op = "cleanup", !.pc = "select",
                                           !.sock = s, !.room = sockRoom[s]]]
    /\ UNCHANGED <<rooms, players, conn, sockRoom, sockSymbol, ioRooms, reply, moves,
                   probe>>

\* SELECT the connected players of socket.roomCode and test the count
\* (445-450)
CleanupSelect(k) ==
    /\ tasks[k].op = "cleanup" /\ tasks[k].pc = "select"
    /\ IF noneConnected(Cardinality(connectedPlayers(tasks[k].room)))
       THEN Goto(k, "deletePlayers") /\ UNCHANGED reply
       ELSE Finish(k, "")
    /\ UNCHANGED <<rooms, players, conn, sockRoom, sockSymbol, ioRooms, timers, moves,
                   probe>>

\* DELETE FROM players WHERE room_code = $1 (452)
CleanupDeletePlayers(k) ==
    /\ tasks[k].op = "cleanup" /\ tasks[k].pc = "deletePlayers"
    /\ players' = [t \in {u \in DOMAIN players :
                              players[u].room_code # tasks[k].room}
                      |-> players[t]]
    /\ Goto(k, "deleteRoom")
    /\ UNCHANGED <<rooms, conn, sockRoom, sockSymbol, ioRooms, timers, reply, moves,
                   probe>>

\* DELETE FROM game_rooms WHERE room_code = $1 (453-454)
CleanupDeleteRoom(k) ==
    /\ tasks[k].op = "cleanup" /\ tasks[k].pc = "deleteRoom"
    /\ rooms' = [q \in DOMAIN rooms \ {tasks[k].room} |-> rooms[q]]
    /\ Finish(k, "")
    /\ UNCHANGED <<players, conn, sockRoom, sockSymbol, ioRooms, timers, moves, probe>>

NextCleanup ==
    \/ \E r \in RoomCodes : CreateRoom(r)
    \/ \E s \in GameSockets :
          \/ Connect(s)
          \/ Disconnect(s)
          \/ StartCleanup(s)
          \/ \E r \in RoomCodes : StartJoin(s, r)
    \/ \E k \in Slots :
          \/ JoinSelectRoom(k)
          \/ JoinSelectPlayers(k)
          \/ JoinInsert(k)
          \/ JoinUpdate(k)
          \/ JoinEmit(k)
          \/ CleanupSelect(k)
          \/ CleanupDeletePlayers(k)
          \/ CleanupDeleteRoom(k)

SpecCleanup == Init /\ [][NextCleanup]_vars

\* ------------------------------------------------------------------------
\* The reads that follow a handler's write, one step per query: the two
\* SELECTs of the broadcast, then the two SELECTs of sendPlayerInfo

\* The rows of SELECT * FROM players WHERE room_code = $1 AND connected =
\* true, as socket id and symbol.
connectedRows(r) == [s \in connectedPlayers(r) |-> players[s].symbol]

\* The player-info message of each row: its symbol and its turn flag.
playerInfo(room, rows) ==
    [s \in DOMAIN rows |->
        [symbol |-> rows[s],
         isMyTurn |-> rows[s] = room.current_player
                        /\ room.game_status = "playing"]]

\* What the catch of each handler emits.
emitFailure(op) ==
    IF op = "join" THEN "Failed to join room"
    ELSE IF op = "move" THEN "Failed to make move"
    ELSE "Failed to reset game"

\* SELECT the updated room for the broadcast.
EmitReadRoom(k) ==
    /\ tasks[k].op \in {"join", "move", "reset"} /\ tasks[k].pc = "emit"
    /\ tasks' = [tasks EXCEPT
                    ![k].pc = "emitPlayers",
                    ![k].row = IF tasks[k].room \in DOMAIN rooms
                               THEN <<rooms[tasks[k].room]>> ELSE <<>>]
    /\ UNCHANGED <<rooms, players, conn, sockRoom, sockSymbol, ioRooms, timers, reply,
                   moves, probe>>

\* SELECT the connected players for the broadcast and emit it to the room;
\* updatedRoom.rows[0] throws into the catch when the room was gone.
EmitReadPlayers(k) ==
    /\ tasks[k].pc = "emitPlayers"
    /\ IF tasks[k].row = <<>>
       THEN Finish(k, emitFailure(tasks[k].op))
       ELSE /\ tasks' = [tasks EXCEPT
                           ![k].pc = "infoRoom",
                           ![k].seen = <<[room |-> tasks[k].row[1],
                                          rows |-> connectedRows(tasks[k].room)]>>]
            /\ UNCHANGED reply
    /\ UNCHANGED <<rooms, players, conn, sockRoom, sockSymbol, ioRooms, timers, moves,
                   probe>>

\* sendPlayerInfo, SELECT the room; no row, nothing is sent (105-112)
InfoReadRoom(k) ==
    /\ tasks[k].pc = "infoRoom"
    /\ IF tasks[k].room \notin DOMAIN rooms
       THEN Finish(k, "")
       ELSE /\ tasks' = [tasks EXCEPT ![k].pc = "infoPlayers",
                                      ![k].info = <<rooms[tasks[k].room]>>]
            /\ UNCHANGED reply
    /\ UNCHANGED <<rooms, players, conn, sockRoom, sockSymbol, ioRooms, timers, moves,
                   probe>>

\* sendPlayerInfo, SELECT the connected players and emit player-info to
\* each (113-127); the handler returns.
InfoReadPlayers(k) ==
    /\ tasks[k].pc = "infoPlayers"
    /\ Finish(k, "")
    /\ UNCHANGED <<rooms, players, conn, sockRoom, sockSymbol, ioRooms, timers, moves,
                   probe>>

NextEmit ==
    \/ \E r \in RoomCodes : CreateRoom(r)
    \/ \E s \in GameSockets : Connect(s)
    \/ \E s \in GameSockets, r \in RoomCodes : StartJoin(s, r)
    \/ \E s \in GameSockets, r \in RoomCodes, position \in ConcPos :
          StartMove(s, r, position)
    \/ \E k \in Slots :
          \/ JoinSelectRoom(k)
          \/ JoinSelectPlayers(k)
          \/ JoinInsert(k)
          \/ JoinUpdate(k)
          \/ MoveSelect(k)
          \/ MoveUpdate(k)
          \/ EmitReadRoom(k)
          \/ EmitReadPlayers(k)
          \/ InfoReadRoom(k)
          \/ InfoReadPlayers(k)

SpecEmit == Init /\ [][NextEmit]_vars

\* ------------------------------------------------------------------------
\* A pool.query that throws: the handler has run up to the failing query
\* and its catch emits the handler's failure message. The failing query is
\* named by the step of the handler that awaits it.

JoinQueries == {"selectRoom", "selectPlayers", "insert", "update", "emit"}

MoveQueries == {"select", "update", "emit"}

ResetQueries == {"update", "emit"}

\* join-room whose query at throws (203-288): the INSERT of the player and
\* the socket's fields come before the UPDATE of the room.
JoinRoomFails(s, r, at) ==
    /\ conn[s] = "open"
    /\ \/ at = "selectRoom"
       \/ /\ r \in DOMAIN rooms
          /\ \/ at = "selectPlayers"
             \/ ~roomIsFull(Cardinality(connectedPlayers(r)))
    /\ LET isFirstPlayer == connectedPlayers(r) = {}
           symbol == joinSymbol(isFirstPlayer)
       IN  /\ IF at \in {"update", "emit"}
              THEN /\ players' = upsertPlayer(s, r, symbol)
                   /\ sockRoom' = [sockRoom EXCEPT ![s] = r]
                   /\ ioRooms' = [ioRooms EXCEPT ![s] = @ \cup {r}]
                   /\ sockSymbol' = [sockSymbol EXCEPT ![s] = symbol]
              ELSE UNCHANGED <<players, sockRoom, sockSymbol, ioRooms>>
           /\ IF at = "emit"
              THEN /\ rooms' = joinRoomUpdate(r, isFirstPlayer)
                   /\ moves' = joinMoves(r, isFirstPlayer)
              ELSE UNCHANGED <<rooms, moves>>
    /\ reply' = Reply("join", s, emitFailure("join"))
    /\ UNCHANGED <<conn, timers, probe, tasks>>

\* make-move whose query at throws (291-377)
MakeMoveFails(s, r, position, at) ==
    /\ conn[s] = "open"
    /\ ~notInRoom(s, r)
    /\ at # "select" => moveError(s, r, position) = ""
    /\ IF at = "emit"
       THEN /\ rooms' = [rooms EXCEPT
                          ![r] = moveRow(rooms[r], sockSymbol[s], position)]
            /\ moves' = [moves EXCEPT ![r] = @ + 1]
       ELSE UNCHANGED <<rooms, moves>>
    /\ reply' = Reply("move", s, emitFailure("move"))
    /\ UNCHANGED <<players, conn, sockRoom, sockSymbol, ioRooms, timers, probe, tasks>>

\* reset-game whose query at throws (379-423)
ResetGameFails(s, r, at) ==
    /\ conn[s] = "open"
    /\ ~notInRoom(s, r)
    /\ IF at = "emit" /\ r \in DOMAIN rooms
       THEN /\ rooms' = [rooms EXCEPT ![r] = resetRow]
            /\ moves' = [moves EXCEPT ![r] = 0]
       ELSE UNCHANGED <<rooms, moves>>
    /\ reply' = Reply("reset", s, emitFailure("reset"))
    /\ UNCHANGED <<players, conn, sockRoom, sockSymbol, ioRooms, timers, probe, tasks>>

NextFail ==
    \/ Step(GameSockets, LifePos)
    \/ \E s \in GameSockets, r \in RoomCodes :
          \/ \E at \in JoinQueries : JoinRoomFails(s, r, at)
          \/ \E at \in MoveQueries, position \in LifePos :
                MakeMoveFails(s, r, position, at)
          \/ \E at \in ResetQueries : ResetGameFails(s, r, at)

SpecFail == Init /\ [][NextFail]_vars

\* ------------------------------------------------------------------------
\* Two rooms: a socket may send join-room for one room after the other

\* The sockets io.to(roomCode).emit and socket.to(roomCode).emit reach.
recipients(r) == {s \in Sockets : r \in ioRooms[s]}

NextRooms ==
    \/ \E r \in CreateCodes : CreateRoom(r)
    \/ \E s \in GameSockets :
          \/ Connect(s)
          \/ Disconnect(s)
          \/ CleanupFire(s)
    \/ \E s \in GameSockets, r \in CreateCodes :
          \/ JoinRoom(s, r)
          \/ \E position \in ConcPos : MakeMove(s, r, position)
          \/ ResetGame(s, r)

SpecRooms == Init /\ [][NextRooms]_vars

\* ------------------------------------------------------------------------
\* checkWinner on every board of {'', X, O}^9

Boards == [1..9 -> {"", "X", "O"}]

InitBoards ==
    /\ rooms = <<>>
    /\ players = <<>>
    /\ conn = [s \in Sockets |-> "idle"]
    /\ sockRoom = [s \in Sockets |-> NULL]
    /\ ioRooms = [s \in Sockets |-> {}]
    /\ sockSymbol = [s \in Sockets |-> NULL]
    /\ timers = {}
    /\ reply = Reply("none", 0, "")
    /\ moves = [r \in RoomCodes |-> 0]
    /\ tasks = [k \in Slots |-> IdleTask]
    /\ \E b \in Boards : probe = [board |-> b, result |-> "pending"]

\* One call of checkWinner.
Evaluate ==
    /\ probe.result = "pending"
    /\ probe' = [probe EXCEPT !.result = checkWinner(probe.board)]
    /\ UNCHANGED <<rooms, players, conn, sockRoom, sockSymbol, ioRooms, timers, reply,
                   moves, tasks>>

SpecBoards == InitBoards /\ [][Evaluate]_vars

\* ------------------------------------------------------------------------
\* Properties

\* All player rows of room r, connected or not.
roomPlayers(r) == {t \in DOMAIN players : players[t].room_code = r}

\* The board of room r as the handlers see it.
boardOf(r) == boardToArray(rooms[r].board)

marks(board, symbol) == Cardinality({i \in 1..9 : board[i] = symbol})

\* Socket s is bound to room r, which exists.
Bound(s, r) == sockRoom[s] = r /\ r \in DOMAIN rooms

\* A room as CreateRoom leaves it: waiting, nobody has joined.
FreshRoom(r) ==
    /\ r \in DOMAIN rooms
    /\ rooms[r].game_status = "waiting"
    /\ roomPlayers(r) = {}

\* A room after the first Join: waiting, one connected player, X.
AfterFirstJoin(r) ==
    /\ r \in DOMAIN rooms
    /\ rooms[r].game_status = "waiting"
    /\ \E t \in Sockets :
          /\ roomPlayers(r) = {t}
          /\ players[t].connected
          /\ players[t].symbol = "X"

\* A room after the second Join: playing, two connected players, X and O.
AfterSecondJoin(r) ==
    /\ r \in DOMAIN rooms
    /\ rooms[r].game_status = "playing"
    /\ connectedPlayers(r) = roomPlayers(r)
    /\ Cardinality(roomPlayers(r)) = 2
    /\ {players[t].symbol : t \in roomPlayers(r)} = {"X", "O"}

\* C1: on a fresh room the first Join gets X and leaves the room waiting,
\* the Join of a second connection gets O and sets the room playing, and the
\* Join of a third connection is answered 'Room is full' and changes neither
\* the tables nor the socket's fields.
C1_JoinSequencing ==
    [][\A s \in Sockets, r \in RoomCodes :
          JoinRoom(s, r) =>
            /\ FreshRoom(r) =>
                 /\ reply'.err = ""
                 /\ players'[s] = [room_code |-> r, symbol |-> "X",
                                   connected |-> TRUE]
                 /\ sockSymbol'[s] = "X"
                 /\ rooms'[r].game_status = "waiting"
            /\ (AfterFirstJoin(r) /\ s \notin roomPlayers(r)) =>
                 /\ reply'.err = ""
                 /\ players'[s] = [room_code |-> r, symbol |-> "O",
                                   connected |-> TRUE]
                 /\ sockSymbol'[s] = "O"
                 /\ rooms'[r].game_status = "playing"
            /\ (AfterSecondJoin(r) /\ s \notin roomPlayers(r)) =>
                 /\ reply'.err = "Room is full"
                 /\ UNCHANGED <<rooms, players, sockRoom, sockSymbol>>
      ]_vars

\* The third Join of the sequence has been refused: two players sit in a
\* playing room with an untouched board and a third socket was told the
\* room is full.
C1_Witness ==
    \E r \in DOMAIN rooms :
        /\ AfterSecondJoin(r)
        /\ rooms[r].board = EmptyBoardString
        /\ reply.op = "join" /\ reply.err = "Room is full"
        /\ reply.sock \notin roomPlayers(r)
        /\ \A s \in Sockets : conn[s] = "open"

\* C2: a Move by a bound connection while the room is waiting or finished
\* is answered 'Game not in progress' and leaves the room row unchanged,
\* whatever the position and whoever the mover.
C2_MoveNotInProgress ==
    [][\A s \in Sockets, r \in RoomCodes, position \in PosInputs :
          (/\ Bound(s, r)
           /\ rooms[r].game_status \in {"waiting", "finished"}
           /\ MakeMove(s, r, position)) =>
            /\ reply'.err = "Game not in progress"
            /\ rooms' = rooms
      ]_vars

\* A Move was refused on a finished room.
C2_Witness ==
    /\ reply.op = "move" /\ reply.err = "Game not in progress"
    /\ \E r \in DOMAIN rooms : rooms[r].game_status = "finished"

\* C3: while the room is playing, a Move by a bound connection whose symbol
\* is not current_player is answered 'Not your turn' and leaves the room
\* row unchanged.
C3_MoveWrongTurn ==
    [][\A s \in Sockets, r \in RoomCodes, position \in PosInputs :
          (/\ Bound(s, r)
           /\ rooms[r].game_status = "playing"
           /\ sockSymbol[s] # rooms[r].current_player
           /\ MakeMove(s, r, position)) =>
            /\ reply'.err = "Not your turn"
            /\ rooms' = rooms
      ]_vars

\* A Move was refused for being out of turn, in a game under way.
C3_Witness ==
    /\ reply.op = "move" /\ reply.err = "Not your turn"
    /\ \E r \in DOMAIN rooms :
          /\ rooms[r].game_status = "playing"
          /\ marks(boardOf(r), "X") = 2

\* The board after X@0, O@3, X@1, O@4, X@2.
TopRowBoard == <<"X", "X", "X", "O", "O", " ", " ", " ", " ">>

\* C4: a Move by a bound connection, in a playing room, by current_player,
\* on an empty cell in 0..8, writes the mover's symbol at that cell and
\* leaves the other eight cells alone; the status becomes finished exactly
\* when checkWinner of the new board reports a win or a draw and is playing
\* otherwise. The moves X@0, O@3, X@1, O@4, X@2 end finished with winner X.
C4_MoveEffect ==
    /\ [][\A s \in Sockets, r \in RoomCodes, position \in PosInputs :
            (/\ Bound(s, r)
             /\ rooms[r].game_status = "playing"
             /\ sockSymbol[s] = rooms[r].current_player
             /\ position \in 0..8
             /\ rooms[r].board[position + 1] = " "
             /\ MakeMove(s, r, position)) =>
              /\ reply'.err = ""
              /\ rooms'[r].board[position + 1] = sockSymbol[s]
              /\ \A i \in 1..9 :
                    i # position + 1 => rooms'[r].board[i] = rooms[r].board[i]
              /\ rooms'[r].game_status \in {"playing", "finished"}
              /\ rooms'[r].game_status = "finished" <=>
                    checkWinner(boardToArray(rooms'[r].board))
                        \in {"X", "O", "draw"}
       ]_vars
    /\ [](\A r \in DOMAIN rooms :
            (/\ rooms[r].board = TopRowBoard
             /\ moves[r] = 5
             /\ reply.op = "move" /\ reply.err = "") =>
              /\ rooms[r].game_status = "finished"
              /\ rooms[r].winner = "X")

\* The fifth move of the sequence has just been made.
C4_Witness ==
    \E r \in DOMAIN rooms :
        /\ rooms[r].board = TopRowBoard
        /\ moves[r] = 5
        /\ reply.op = "move" /\ reply.err = ""
        /\ rooms[r].game_status = "finished"

\* C5 as claimed: in a finished room the winner column is checkWinner of
\* the board: X, O, or draw for a full board without a triple.
C5_WinnerIsEvaluation ==
    \A r \in DOMAIN rooms :
        rooms[r].game_status = "finished" =>
            rooms[r].winner = checkWinner(boardOf(r))

\* C5 as amended: in a finished room checkWinner of the board is X, O or
\* draw; the winner column holds that symbol for X and O, and NULL for a
\* draw.
C5_WinnerColumn ==
    \A r \in DOMAIN rooms :
        rooms[r].game_status = "finished" =>
            LET w == checkWinner(boardOf(r))
            IN  /\ w \in {"X", "O", "draw"}
                /\ w \in {"X", "O"} => rooms[r].winner = w
                /\ w = "draw" => rooms[r].winner = NULL

\* A game has ended in a draw.
C5_Witness ==
    \E r \in DOMAIN rooms :
        /\ rooms[r].game_status = "finished"
        /\ checkWinner(boardOf(r)) = "draw"
        /\ reply.op = "move" /\ reply.err = ""

\* C6: a Reset by a bound connection leaves the room with an all-blank
\* board, current_player X, status playing and no winner, whatever the room
\* held before.
C6_ResetRestores ==
    [][\A s \in Sockets, r \in RoomCodes :
          (Bound(s, r) /\ ResetGame(s, r)) =>
            /\ reply'.err = ""
            /\ rooms'[r].board = [i \in 1..9 |-> " "]
            /\ rooms'[r].current_player = "X"
            /\ rooms'[r].game_status = "playing"
            /\ rooms'[r].winner = NULL
      ]_vars

\* A Reset has just been applied.
C6_Witness ==
    /\ reply.op = "reset" /\ reply.err = ""
    /\ \E r \in DOMAIN rooms :
          /\ rooms[r].game_status = "playing"
          /\ Cardinality(connectedPlayers(r)) = 2

\* The cells of triple k, k = 0..7: rows, then columns, then diagonals.
TripleCells(k) ==
    IF k < 3 THEN {3 * k, 3 * k + 1, 3 * k + 2}
    ELSE IF k < 6 THEN {k - 3, k, k + 3}
    ELSE IF k = 6 THEN {0, 4, 8}
    ELSE {2, 4, 6}

Uniform(board, k, symbol) == \A c \in TripleCells(k) : board[c + 1] = symbol

UniformTriples(board) ==
    {k \in 0..7 : Uniform(board, k, "X") \/ Uniform(board, k, "O")}

\* C7: checkWinner returns a symbol exactly when some triple is uniform and
\* non-empty, and then the symbol of the first such triple in the order
\* rows, columns, diagonals; draw exactly when no triple is uniform and the
\* board is full; null otherwise.
C7_CheckWinner ==
    probe.result \notin {"idle", "pending"} =>
        LET b == probe.board
            res == probe.result
            u == UniformTriples(b)
            full == \A i \in 1..9 : b[i] # ""
        IN  /\ res \in {"X", "O", "draw", NULL}
            /\ res \in {"X", "O"} <=> u # {}
            /\ u # {} =>
                 \E k \in u : /\ \A j \in u : k <= j
                              /\ Uniform(b, k, res)
            /\ res = "draw" <=> (u = {} /\ full)
            /\ res = NULL <=> (u = {} /\ ~full)

\* checkWinner returned O on a board that also holds a uniform X triple
\* later in the order.
C7_Witness ==
    /\ probe.result = "O"
    /\ \E k \in 0..7 : Uniform(probe.board, k, "X")

\* C8: in a playing room without a winner, after N successful moves since
\* the game started or was reset, current_player is X for even N and O for
\* odd N, and the board holds ceil(N/2) X marks and floor(N/2) O marks.
C8_TurnParity ==
    \A r \in DOMAIN rooms :
        (rooms[r].game_status = "playing" /\ checkWinner(boardOf(r)) = NULL) =>
            /\ rooms[r].current_player = (IF moves[r] % 2 = 0 THEN "X" ELSE "O")
            /\ marks(boardOf(r), "X") = (moves[r] + 1) \div 2
            /\ marks(boardOf(r), "O") = moves[r] \div 2

\* Eight moves have been made and the game is still open.
C8_Witness ==
    \E r \in DOMAIN rooms :
        /\ rooms[r].game_status = "playing"
        /\ checkWinner(boardOf(r)) = NULL
        /\ moves[r] = 8

\* C9 as claimed: however Join handlers interleave at their awaits, a room
\* has at most two connected player rows, and no Join completes without
\* error beside two other connected players.
C9_AtMostTwoConnected ==
    \A r \in RoomCodes :
        /\ Cardinality(connectedPlayers(r)) <= 2
        /\ (reply.op = "join" /\ reply.err = "" /\ sockRoom[reply.sock] = r) =>
              Cardinality(connectedPlayers(r) \ {reply.sock}) < 2

\* C10 as claimed: however Move handlers interleave, a Move's UPDATE finds
\* the room as its validation read it: playing, with the mover's symbol to
\* move (no symbol commits twice in a row), and it keeps every mark the
\* board holds (no committed mark is lost).
C10_MovesSerialized ==
    [][\A k \in Slots :
          (/\ tasks[k].op = "move" /\ tasks[k].pc = "update"
           /\ tasks[k].room \in DOMAIN rooms
           /\ MoveUpdate(k)) =>
            LET r == tasks[k].room
            IN  /\ rooms[r].game_status = "playing"
                /\ rooms[r].current_player = tasks[k].symbol
                /\ \A i \in 1..9 :
                      rooms[r].board[i] # " " =>
                          rooms'[r].board[i] = rooms[r].board[i]
      ]_vars

\* C11: with every handler run atomically, a step that is not a Reset
\* keeps every X and O of a room's board where it is, and a Move that
\* passes the binding, status and turn checks but names an occupied cell or
\* a position outside 0..8 is answered 'Invalid move' and writes nothing.
C11_CellsWrittenOnce ==
    /\ [][\A r \in RoomCodes :
            (/\ r \in DOMAIN rooms
             /\ r \in DOMAIN rooms'
             /\ ~(reply'.op = "reset" /\ reply'.err = "")) =>
              \A i \in 1..9 :
                  rooms[r].board[i] # " " =>
                      rooms'[r].board[i] = rooms[r].board[i]
       ]_vars
    /\ [][\A s \in Sockets, r \in RoomCodes, position \in PosInputs :
            (/\ Bound(s, r)
             /\ rooms[r].game_status = "playing"
             /\ sockSymbol[s] = rooms[r].current_player
             /\ (position \notin 0..8 \/ rooms[r].board[position + 1] # " ")
             /\ MakeMove(s, r, position)) =>
              /\ reply'.err = "Invalid move"
              /\ rooms' = rooms
       ]_vars

\* A Move on an occupied cell has just been refused.
C11_Witness ==
    /\ reply.op = "move" /\ reply.err = "Invalid move"
    /\ \E r \in DOMAIN rooms :
          /\ rooms[r].game_status = "playing"
          /\ marks(boardOf(r), "X") = 1
          /\ marks(boardOf(r), "O") = 1

\* C12 as claimed: the connected players of a room hold distinct symbols.
C12_DistinctSymbols ==
    \A r \in RoomCodes :
        \A s, t \in connectedPlayers(r) :
            s # t => players[s].symbol # players[t].symbol

\* C13 as claimed: a connection's symbol in a room, in its player row and
\* in its socket fields, never changes while it stays in that room.
C13_SymbolStable ==
    [][\A s \in Sockets :
          /\ (/\ s \in DOMAIN players
              /\ s \in DOMAIN players'
              /\ players'[s].room_code = players[s].room_code) =>
                players'[s].symbol = players[s].symbol
          /\ (sockRoom[s] # NULL /\ sockRoom'[s] = sockRoom[s]) =>
                sockSymbol'[s] = sockSymbol[s]
      ]_vars

\* C14: with every handler run atomically, a waiting room has fewer than
\* two connected players and an all-blank board.
C14_WaitingRoom ==
    \A r \in DOMAIN rooms :
        rooms[r].game_status = "waiting" =>
            /\ Cardinality(connectedPlayers(r)) < 2
            /\ rooms[r].board = [i \in 1..9 |-> " "]

\* A waiting room with one connected player, after another player has
\* joined and left.
C14_Witness ==
    \E r \in DOMAIN rooms :
        /\ rooms[r].game_status = "waiting"
        /\ Cardinality(connectedPlayers(r)) = 1
        /\ Cardinality(roomPlayers(r)) = 2

\* C15 as claimed: a room's status changes only from waiting to playing by
\* a Join, from playing to finished by a Move, and from finished to playing
\* by a Reset.
C15_StatusTransitions ==
    [][\A r \in RoomCodes :
          (/\ r \in DOMAIN rooms
           /\ r \in DOMAIN rooms'
           /\ rooms'[r].game_status # rooms[r].game_status) =>
            \/ /\ rooms[r].game_status = "waiting"
               /\ rooms'[r].game_status = "playing"
               /\ reply'.op = "join"
            \/ /\ rooms[r].game_status = "playing"
               /\ rooms'[r].game_status = "finished"
               /\ reply'.op = "move"
            \/ /\ rooms[r].game_status = "finished"
               /\ rooms'[r].game_status = "playing"
               /\ reply'.op = "reset"
      ]_vars

\* The part of C15 about Join alone: no Join changes the status of a room
\* that is not waiting.
C15_JoinKeepsFinished ==
    [][\A r \in RoomCodes :
          (/\ r \in DOMAIN rooms
           /\ r \in DOMAIN rooms'
           /\ rooms[r].game_status = "finished"
           /\ reply'.op = "join") =>
            rooms'[r].game_status = "finished"
      ]_vars

\* C16 as claimed: create-room answers 'Unable to generate unique room
\* code' only when every candidate collided; a request whose candidate is
\* unused, the tenth included, goes on to insert the room.
C16_FreeCandidateCreates ==
    [][\A k \in Slots, code \in CreateCodes :
          (/\ code \notin DOMAIN rooms
           /\ CreateSelect(k, code)) =>
            /\ tasks'[k].pc = "insert"
            /\ tasks'[k].room = code
      ]_vars

\* C17: a room whose player rows are all disconnected still has a cleanup
\* timer pending, and a timer that fires while none of the room's players
\* is connected deletes the room row and all its player rows, after which
\* the room lookup answers 'Room not found'.
C17_EmptyRoomRemoved ==
    /\ [](\A r \in DOMAIN rooms :
            (roomPlayers(r) # {} /\ connectedPlayers(r) = {}) =>
                \E s \in timers : sockRoom[s] = r)
    /\ [][\A s \in Sockets :
            (/\ s \in timers
             /\ connectedPlayers(sockRoom[s]) = {}
             /\ CleanupFire(s)) =>
              /\ sockRoom[s] \notin DOMAIN rooms'
              /\ \A t \in DOMAIN players' : players'[t].room_code # sockRoom[s]
              /\ roomLookup(sockRoom[s])' = "Room not found"
       ]_vars

\* Both players of a started game have left and the cleanup has removed
\* the room.
C17_Witness ==
    /\ reply.op = "cleanup"
    /\ \A r \in RoomCodes : roomLookup(r) = "Room not found"
    /\ DOMAIN players = {}
    /\ \E s, t \in Sockets :
          /\ s # t
          /\ sockRoom[s] \in RoomCodes /\ sockRoom[t] = sockRoom[s]
          /\ moves[sockRoom[s]] > 0

\* C18: a cleanup timer that fires while some connection is connected to
\* the room, whichever connection that is, deletes neither the room nor any
\* player row.
C18_CleanupReadsLiveState ==
    [][\A s \in Sockets :
          (/\ s \in timers
           /\ connectedPlayers(sockRoom[s]) # {}
           /\ CleanupFire(s)) =>
            UNCHANGED <<rooms, players>>
      ]_vars

\* The timer of a player who left a full room has fired after a new
\* connection took the free place: the room and the three player rows are
\* still there.
C18_Witness ==
    /\ reply.op = "cleanup"
    /\ \E s \in Sockets, r \in DOMAIN rooms :
          /\ reply.sock = s
          /\ sockRoom[s] = r
          /\ s \in DOMAIN players /\ ~players[s].connected
          /\ Cardinality(connectedPlayers(r)) = 2
          /\ Cardinality(roomPlayers(r)) = 3

\* C19 as claimed: under any interleaving of the cleanup callback with
\* join-room, neither of the callback's DELETEs runs while the room has a
\* connected player whose socket is open.
C19_DeleteOnlyWhenEmpty ==
    [][\A k \in Slots :
          (/\ tasks[k].op = "cleanup"
           /\ \E s \in connectedPlayers(tasks[k].room) : conn[s] = "open") =>
            ~(CleanupDeletePlayers(k) \/ CleanupDeleteRoom(k))
      ]_vars

\* C20 as claimed: under any interleaving, the player-info messages a
\* handler sends are the ones its broadcast's snapshot gives: same
\* recipients, same symbols, same turn flags.
C20_InfoMatchesBroadcast ==
    [][\A k \in Slots :
          InfoReadPlayers(k) =>
              playerInfo(tasks[k].info[1], connectedRows(tasks[k].room))
                  = playerInfo(tasks[k].seen[1].room, tasks[k].seen[1].rows)
      ]_vars

\* C21 as claimed: under any interleaving, the room row a make-move handler
\* reads for its game-updated broadcast is the row its own UPDATE wrote, so
\* that the broadcasts carry the states of the committed writes one by one.
C21_BroadcastOwnWrite ==
    [][\A k \in Slots :
          (/\ tasks[k].op = "move"
           /\ EmitReadRoom(k)) =>
            tasks'[k].row = tasks[k].row
      ]_vars

\* C22 as claimed: a Join, Move or Reset in which a query throws leaves
\* the room rows, the player rows and the socket fields as they were
\* before the handler started.
C22_FailureAborts ==
    [][\A s \in GameSockets, r \in RoomCodes :
          (/\ reply'.sock = s
           /\ \/ \E at \in JoinQueries : JoinRoomFails(s, r, at)
              \/ \E at \in MoveQueries, position \in LifePos :
                    MakeMoveFails(s, r, position, at)
              \/ \E at \in ResetQueries : ResetGameFails(s, r, at)) =>
            UNCHANGED <<rooms, players, sockRoom, sockSymbol>>
      ]_vars

\* The messages of the validation errors of join-room, make-move and
\* reset-game.
Rejections ==
    {"Room not found", "Room is full", "Not in this room",
     "Game not in progress", "Not your turn", "Invalid move"}

C24_TurnKeptOnFinish ==
    [][\A s \in GameSockets, r \in RoomCodes, position \in 0..8 :
          (/\ Bound(s, r)
           /\ rooms[r].game_status = "playing"
           /\ sockSymbol[s] = rooms[r].current_player
           /\ rooms[r].board[position + 1] = " "
           /\ MakeMove(s, r, position)) =>
            IF rooms'[r].game_status = "playing"
            THEN rooms'[r].current_player = nextPlayerOf(rooms[r].current_player)
            ELSE rooms'[r].current_player = rooms[r].current_player
      ]_vars

\* C25 as claimed: in a playing room checkWinner of the board reports
\* neither a winner nor a draw, so that a legal move exists.
C25_PlayingBoardOpen ==
    \A r \in DOMAIN rooms :
        rooms[r].game_status = "playing" => checkWinner(boardOf(r)) = NULL

\* C26 as claimed: in the player-info fan-out that ends an accepted Join,
\* Move or Reset, at most one connected player is told isMyTurn = true,
\* exactly one when the room is playing with two connected players, and
\* none when the room is not playing.
C26_OneTurnFlag ==
    \A r \in DOMAIN rooms :
        (/\ reply.op \in {"join", "move", "reset"}
         /\ reply.err = ""
         /\ sockRoom[reply.sock] = r) =>
            LET info == playerInfo(rooms[r], connectedRows(r))
                told == {s \in DOMAIN info : info[s].isMyTurn}
            IN  /\ Cardinality(told) <= 1
                /\ (/\ rooms[r].game_status = "playing"
                    /\ Cardinality(connectedPlayers(r)) = 2) =>
                      Cardinality(told) = 1
                /\ rooms[r].game_status # "playing" => told = {}

\* C27 as claimed: the broadcast of an accepted Join, Move or Reset in a
\* room, and the notice of a disconnect from it, reach only sockets whose
\* socket.roomCode is that room.
C27_BroadcastToBoundOnly ==
    \A r \in DOMAIN rooms :
        (/\ reply.op \in {"join", "move", "reset", "disconnect"}
         /\ reply.err = ""
         /\ sockRoom[reply.sock] = r) =>
            \A s \in recipients(r) : sockRoom[s] = r

====
